---- MODULE Spec2Model ----
(***************************************************************************)
(* State-machine model of run_gesture_webcam.js: the startup sequence of   *)
(* main(), the setInterval callback with its `running` re-entrancy guard,  *)
(* the completion of captureFrame and the rest of the cycle (predict,      *)
(* top-label extraction, logging, finally).                                *)
(*                                                                         *)
(* Node runs every callback to completion: the timer callback runs up to   *)
(* its `await`, and the continuation after the await runs as a microtask   *)
(* right after the capture callback, before any other timer callback.      *)
(***************************************************************************)
EXTENDS Integers, Sequences, FiniteSets, TLC

\* ---------------------------------------------------------------- bounds
MaxTicks  == 4   \* timer ticks explored
MaxCycles == 3   \* cycles started
MaxLen    == 2   \* length of a score vector

VARIABLES
  pc,              \* position of main(): "loading", "looping", "failed"
  loaded,          \* what the two loads of Promise.all produced
  exited,          \* the process has ended
  exitCode,        \* its exit code (meaningful when exited)
  timerRegistered, \* setInterval has been called
  running,         \* the guard flag `let running`
  labels,          \* the label list returned by loadModelAndLabels
  ticks,           \* number of times the interval timer has fired
  cycles,          \* one record per cycle started, in start order
  log,             \* lines written by console.log / console.error, in order
  scores,          \* locals of the latest cycle, as left when it ended;
  topIdx,          \* a new invocation of the callback starts without them
  label,
  loadCalls,       \* number of calls of loadModelAndLabels so far
  liveTensors      \* tensors created by predict and not yet disposed

vars == <<pc, loaded, exited, exitCode, timerRegistered, running, labels, ticks,
          cycles, log, scores, topIdx, label, loadCalls, liveTensors>>

\* ------------------------------------------------------- JS number values
Num(n) == [k |-> "num", v |-> n]
NaN    == [k |-> "nan", v |-> 0]
NegInf == [k |-> "-inf", v |-> 0]

\* two finite scores, enough for a maximum and a tie, and NaN
ScoreValues == {Num(0), Num(1), NaN}

ScoreVectors == UNION {[1..n -> ScoreValues] : n \in 0..MaxLen}

\* a === b on numbers: NaN is equal to nothing, itself included
StrictEq(a, b) == a.k # "nan" /\ b.k # "nan" /\ a = b

\* the larger of two values as Math.max folds them
Max2(a, b) ==
  IF a.k = "nan" \/ b.k = "nan" THEN NaN
  ELSE IF a.k = "-inf" THEN b
  ELSE IF b.k = "-inf" THEN a
  ELSE IF a.v >= b.v THEN a ELSE b

RECURSIVE MathMaxFrom(_, _)
MathMaxFrom(s, i) ==
  IF i > Len(s) THEN NegInf ELSE Max2(s[i], MathMaxFrom(s, i + 1))

\* Math.max(...scores): -Infinity for no arguments, NaN if any is NaN
MathMax(s) == MathMaxFrom(s, 1)

RECURSIVE IndexOfFrom(_, _, _)
IndexOfFrom(s, x, i) ==
  IF i > Len(s) THEN -1
  ELSE IF StrictEq(s[i], x) THEN i - 1
  ELSE IndexOfFrom(s, x, i + 1)

\* a scan from the end, as lastIndexOf would do
RECURSIVE LastIndexOfFrom(_, _, _)
LastIndexOfFrom(s, x, i) ==
  IF i < 1 THEN -1
  ELSE IF StrictEq(s[i], x) THEN i - 1
  ELSE LastIndexOfFrom(s, x, i - 1)

IndexOf_Last(s, x) == LastIndexOfFrom(s, x, Len(s))

\* scores.indexOf(x): 0-based index of the first element === x, else -1
IndexOf(s, x) == IndexOfFrom(s, x, 1)

\* const topIdx = scores.indexOf(Math.max(...scores))
TopIdx(s) == IndexOf(s, MathMax(s))

\* ----------------------------------------------------------------- labels
LabelLists == {<<>>, <<"rock">>, <<"", "paper">>}

\* contents of metadata.json once read: text that does not parse, the JSON
\* value null, or an object with or without a `labels` array of strings
MetadataFiles ==
  {[json |-> "invalid", hasLabels |-> FALSE, labels |-> <<>>],
   [json |-> "null",    hasLabels |-> FALSE, labels |-> <<>>],
   [json |-> "object",  hasLabels |-> FALSE, labels |-> <<>>]}
  \cup {[json |-> "object", hasLabels |-> TRUE, labels |-> l] : l \in LabelLists}

\* a parse wrapped in a handler that falls back to no labels
ParseThrows_Swallowed(meta) == FALSE

\* JSON.parse(metadataRaw) followed by the destructuring throws
ParseThrows(meta) == meta.json \in {"invalid", "null"}

\* const { labels = [] } = JSON.parse(metadataRaw)
ParseLabels(meta) == IF meta.hasLabels THEN meta.labels ELSE <<>>

\* `class_${i}`
ClassName(i) == "class_" \o ToString(i)

\* labels[i] is undefined (index outside the array)
Undefined(ls, i) == i < 0 \/ i >= Len(ls)

\* labels[i] || `class_${i}` : the empty string falls back too
Label_Or(ls, i) ==
  IF Undefined(ls, i) \/ ls[i + 1] = "" THEN ClassName(i) ELSE ls[i + 1]

\* const label = labels[topIdx] ?? `class_${topIdx}`
Label(ls, i) == IF Undefined(ls, i) THEN ClassName(i) ELSE ls[i + 1]

\* ------------------------------------------------------------ log entries
Line(stream, kind, c) == [stream |-> stream, kind |-> kind, cycle |-> c]

\* ------------------------------------------------------------------- Init
NoMeta == [json |-> "none", hasLabels |-> FALSE, labels |-> <<>>]

Init ==
  /\ pc = "loading"
  /\ loaded = [result |-> "pending", meta |-> NoMeta]
  /\ exited = FALSE
  /\ exitCode = 0
  /\ timerRegistered = FALSE
  /\ running = FALSE
  /\ labels = <<>>
  /\ ticks = 0
  /\ cycles = <<>>
  /\ log = <<>>
  /\ scores = <<>>
  /\ topIdx = -1
  /\ label = ""
  /\ loadCalls = 1
  /\ liveTensors = 0

\* ------------------------------------------------------- derived state
Active   == {c \in 1..Len(cycles) : cycles[c].pc # "done"}
InFlight == {c \in 1..Len(cycles) : cycles[c].pc = "await"}
Ended    == {c \in 1..Len(cycles) : cycles[c].pc = "done"}
LinesOf(c) == {i \in 1..Len(log) : log[i].cycle = c}

\* something keeps the event loop alive: the pending load, the interval
\* timer, or an outstanding capture
EventLoopAlive == pc = "loading" \/ timerRegistered \/ InFlight # {}

\* ---------------------------------------------------------------- startup
\* main().catch(err => console.error('Failed to start:', err))
FailedToStart ==
  /\ pc' = "failed"
  /\ log' = Append(log, Line("stderr", "fatal", 0))
  /\ UNCHANGED <<exited, exitCode, timerRegistered, running, labels, ticks,
                 cycles, scores, topIdx, label, loadCalls, liveTensors>>

\* Promise.all rejects: the model or the metadata file could not be loaded
LoadReject(cause) ==
  /\ pc = "loading"
  /\ cause \in {"model", "readFile"}
  /\ loaded' = [result |-> cause, meta |-> NoMeta]
  /\ FailedToStart

\* a cycle begun by captureFrame at tick t: one capture requested, no
\* inference yet
NewCycle(t) == [pc |-> "await", tick |-> t, outcome |-> "pending",
                captures |-> 1, inferences |-> 0]

\* the callback is also run once when it is registered
StartupCycles_Immediate == <<NewCycle(0)>>

\* setInterval(...) only registers the callback: main starts no cycle
StartupCycles == <<>>

\* Promise.all resolves; main parses the metadata and, if that works,
\* creates the webcam, declares the flag, logs and registers the timer
LoadResolve(meta) ==
  /\ pc = "loading"
  /\ loaded' = [result |-> "read", meta |-> meta]
  /\ IF ParseThrows(meta)
     THEN FailedToStart
     ELSE /\ labels' = ParseLabels(meta)
          /\ running' = FALSE
          /\ log' = Append(log, Line("stdout", "loaded", 0))
          /\ timerRegistered' = TRUE
          /\ cycles' = cycles \o StartupCycles
          /\ pc' = "looping"
          /\ UNCHANGED <<exited, exitCode, ticks, scores, topIdx, label,
                         loadCalls, liveTensors>>

\* nothing is left to run: Node ends the process with process.exitCode,
\* which the program never sets
ProcessExit ==
  /\ ~exited
  /\ ~EventLoopAlive
  /\ exited' = TRUE
  /\ exitCode' = 0
  /\ UNCHANGED <<pc, loaded, timerRegistered, running, labels, ticks, cycles, log,
                 scores, topIdx, label, loadCalls, liveTensors>>

\* ------------------------------------------------------------ timer tick
\* no test of the flag at all
GuardBlocks_None(r) == FALSE

\* if (running) return;
GuardBlocks(r) == r

\* the flag is left alone when a cycle starts
FlagAtStart_Unset(r) == r

\* running = true;
FlagAtStart(r) == TRUE

\* the setInterval callback, up to its await
TimerTick ==
  /\ timerRegistered
  /\ ~exited
  /\ ticks < MaxTicks
  /\ ticks' = ticks + 1
  /\ IF GuardBlocks(running)
     THEN UNCHANGED <<running, cycles, scores, topIdx, label>>
     ELSE /\ Len(cycles) < MaxCycles
          /\ running' = FlagAtStart(running)
          /\ cycles' = Append(cycles, NewCycle(ticks + 1))
          /\ scores' = <<>>
          /\ topIdx' = -1
          /\ label' = ""
  /\ UNCHANGED <<pc, loaded, exited, exitCode, timerRegistered, labels, log,
                 loadCalls, liveTensors>>

\* ------------------------------------------------- capture completes
\* what the camera and the model hand back to one cycle
CycleInputs ==
  {[err |-> TRUE,  frame |-> "none",    out |-> "none",   s |-> <<>>],
   [err |-> FALSE, frame |-> "corrupt", out |-> "none",   s |-> <<>>],
   [err |-> FALSE, frame |-> "png",     out |-> "throws", s |-> <<>>]}
  \cup {[err |-> FALSE, frame |-> "png", out |-> "scores", s |-> sv] :
          sv \in ScoreVectors}

\* which step of the try block throws, if any
Outcome(in) ==
  IF in.err THEN "capture"                 \* if (err) return reject(err)
  ELSE IF in.frame = "corrupt" THEN "decode"   \* tf.node.decodeImage throws
  ELSE IF in.out = "throws" THEN "inference"   \* model.predict throws
  ELSE "ok"

\* the flag is reset at the end of the try block only
FlagAtEnd_TryOnly(o) == o # "ok"

\* finally { running = false; }
FlagAtEnd(o) == FALSE

\* an empty catch block
CatchLines_Silent(c) == <<>>

\* catch (err) { console.error('Capture/predict error:', ...) }
CatchLines(c) == <<Line("stderr", "error", c)>>

\* only a rejected capture is handled
Caught_CaptureOnly(o) == o = "capture"

\* catch (err): whatever the try block throws is caught
Caught(o) == TRUE

\* a failed capture is attempted once more within the cycle
CapturesAtEnd_Retry(n, o) == IF o = "capture" THEN n + 1 ELSE n

\* the rest of the cycle calls captureFrame no further time
CapturesAtEnd(n, o) == n

\* calls of model.predict in the cycle: line 52 is reached once when the
\* capture resolved and the frame decoded, and not at all otherwise
InferenceCalls(in) == IF in.err \/ in.frame = "corrupt" THEN 0 ELSE 1

\* the model and the labels are loaded again by the cycle
LoadCallsInCycle_Reload(n) == n + 1

\* the cycle uses the `model` and `labels` that main loaded
LoadCallsInCycle(n) == n

\* tensors predict creates before it returns or throws: none when it is
\* not called or decodeImage throws; image, resized, normalized and batched
\* when model.predict throws; those and logits when it returns
Allocated(in) ==
  IF in.err \/ in.frame = "corrupt" THEN 0
  ELSE IF in.out = "throws" THEN 4
  ELSE 5

\* the tensors are disposed by hand at the end of predict
Disposed_OnReturnOnly(n, o) == IF o = "ok" THEN n ELSE 0

\* tf.tidy disposes every tensor created in its callback, when the
\* callback returns (dataSync gives a typed array, not a tensor) and when
\* it throws
Disposed(n, o) == n

\* a further cycle is begun as soon as one ends
StartedAtEnd_CatchUp(cs, t) ==
  IF Len(cs) < MaxCycles THEN Append(cs, NewCycle(t)) ELSE cs

\* the end of a cycle begins no other cycle
StartedAtEnd(cs, t) == cs

\* the capture callback of cycle c and the rest of that cycle; an error
\* that no catch handled would reject the callback's promise, and Node
\* ends the process on an unhandled rejection with exit code 1
CaptureCallback(c, in) ==
  /\ ~exited
  /\ c \in InFlight
  /\ in \in CycleInputs
  /\ IF Outcome(in) = "ok"
     THEN /\ scores' = in.s
          /\ topIdx' = TopIdx(in.s)
          /\ label' = Label(labels, TopIdx(in.s))
          /\ log' = Append(log, Line("stdout", "prediction", c))
          /\ UNCHANGED <<exited, exitCode>>
     ELSE IF Caught(Outcome(in))
     THEN /\ log' = log \o CatchLines(c)
          /\ UNCHANGED <<scores, topIdx, label, exited, exitCode>>
     ELSE /\ exited' = TRUE
          /\ exitCode' = 1
          /\ UNCHANGED <<scores, topIdx, label, log>>
  /\ running' = FlagAtEnd(Outcome(in))
  /\ cycles' = StartedAtEnd(
                  [cycles EXCEPT ![c] =
                     [@ EXCEPT !.pc = "done",
                               !.outcome = Outcome(in),
                               !.captures = CapturesAtEnd(@, Outcome(in)),
                               !.inferences = InferenceCalls(in)]],
                  ticks)
  /\ loadCalls' = LoadCallsInCycle(loadCalls)
  /\ liveTensors' = liveTensors + Allocated(in)
                       - Disposed(Allocated(in), Outcome(in))
  /\ UNCHANGED <<pc, loaded, timerRegistered, labels, ticks>>

\* ------------------------------------------------------------------ Next
Next ==
  \/ \E cause \in {"model", "readFile"} : LoadReject(cause)
  \/ \E meta \in MetadataFiles : LoadResolve(meta)
  \/ ProcessExit
  \/ TimerTick
  \/ \E c \in 1..MaxCycles, in \in CycleInputs : CaptureCallback(c, in)

Spec == Init /\ [][Next]_vars

\* ------------------------------------------------- runs of any length
\* The setInterval callback as in TimerTick, without the caps: ticks, cycles
\* and log only record what has happened, so the record of the finished
\* cycles is dropped when a new cycle starts, and the count of ticks stops
\* at MaxTicks while a cycle is running.
LiveTick ==
  /\ timerRegistered
  /\ ~exited
  /\ IF GuardBlocks(running)
     THEN /\ ticks' = IF ticks < MaxTicks THEN ticks + 1 ELSE ticks
          /\ UNCHANGED <<running, cycles, log, scores, topIdx, label>>
     ELSE /\ ticks' = 1
          /\ running' = FlagAtStart(running)
          /\ cycles' = <<NewCycle(1)>>
          /\ log' = <<>>
          /\ scores' = <<>>
          /\ topIdx' = -1
          /\ label' = ""
  /\ UNCHANGED <<pc, loaded, exited, exitCode, timerRegistered, labels,
                 loadCalls, liveTensors>>

\* the camera calls back for the outstanding capture
CaptureCompletes ==
  \E c \in 1..MaxCycles, in \in CycleInputs : CaptureCallback(c, in)

LiveNext ==
  \/ \E cause \in {"model", "readFile"} : LoadReject(cause)
  \/ \E meta \in MetadataFiles : LoadResolve(meta)
  \/ ProcessExit
  \/ LiveTick
  \/ CaptureCompletes

\* the timer keeps firing and every capture is eventually answered
LiveSpec ==
  /\ Init
  /\ [][LiveNext]_vars
  /\ WF_vars(LiveTick)
  /\ WF_vars(CaptureCompletes)

\* ================================================================ claims
LoadFailed == loaded.result \in {"model", "readFile"}
               \/ (loaded.result = "read" /\ loaded.meta.json \in {"invalid", "null"})
LoadSucceeded == loaded.result = "read" /\ loaded.meta.json = "object"
Failed(c) == cycles[c].outcome \in {"capture", "decode", "inference"}
\* the latest cycle ran its try block to the end
Predicted == Len(cycles) > 0 /\ cycles[Len(cycles)].outcome = "ok"

\* C1: in every reachable state at most one cycle is between its start and
\* its cleanup, and at most one captureFrame call is outstanding.
C1_AtMostOneCycle == Cardinality(Active) <= 1 /\ Cardinality(InFlight) <= 1

\* a cycle is active, ticks fired during it, and earlier cycles ended both
\* by success and by failure
C1_Witness ==
  /\ Cardinality(Active) = 1
  /\ \E c \in Active : ticks > cycles[c].tick
  /\ \E c \in Ended : Failed(c)
  /\ \E c \in Ended : cycles[c].outcome = "ok"

\* C2: a tick that fires while the flag is set changes nothing but the tick
\* count (no cycle, no log line, no flag change); the step that ends a cycle
\* starts none; a cycle starts only in a tick step, one cycle per tick.
C2_DroppedTick ==
  [][ /\ (ticks' = ticks + 1 /\ running) =>
           UNCHANGED <<pc, loaded, exited, exitCode, timerRegistered,
                       running, labels, cycles, log, scores, topIdx, label,
                       loadCalls, liveTensors>>
      /\ (Ended' # Ended) => Len(cycles') = Len(cycles)
      /\ (Len(cycles') # Len(cycles)) =>
           (ticks' = ticks + 1 /\ Len(cycles') = Len(cycles) + 1)
    ]_vars

\* two ticks were dropped during a cycle, which then ended, and the next
\* cycle started at the tick after them
C2_Witness ==
  \E c \in 1..Len(cycles) :
     /\ c + 1 <= Len(cycles)
     /\ cycles[c].pc = "done"
     /\ cycles[c + 1].tick >= cycles[c].tick + 3

\* C3: the flag is false at startup, and every step in which a cycle ends,
\* by success or by a thrown error, leaves it false.
C3_FlagReleased ==
  /\ ~running
  /\ [][(Ended' # Ended) => ~running']_vars

\* cycles have ended by success and by failure and the flag is false
C3_Witness ==
  /\ ~running
  /\ \E c \in Ended : cycles[c].outcome = "ok"
  /\ \E c \in Ended : cycles[c].outcome = "decode"

\* C4: after a cycle failed the process is alive and the timer registered,
\* and a tick that fires once the failed cycle has ended starts a new cycle
\* with nothing carried over.
C4_ErrorIsolated ==
  /\ []((\E c \in Ended : Failed(c)) => (~exited /\ timerRegistered))
  /\ [][ (/\ Len(cycles) > 0
          /\ Failed(Len(cycles))
          /\ cycles[Len(cycles)].pc = "done"
          /\ ticks' = ticks + 1)
         => (/\ Len(cycles') = Len(cycles) + 1
             /\ cycles'[Len(cycles')].pc = "await"
             /\ cycles'[Len(cycles')].outcome = "pending"
             /\ running') ]_vars

\* a cycle started right after a cycle that failed in inference
C4_Witness ==
  \E c \in 1..Len(cycles) :
     /\ c + 1 <= Len(cycles)
     /\ cycles[c].outcome = "inference"
     /\ cycles[c + 1].pc = "await"

\* C5: every ended cycle has exactly one log line, a prediction on stdout
\* if nothing threw and an error on stderr otherwise; an unfinished cycle
\* has none.
C5_OneLinePerCycle ==
  \A c \in 1..Len(cycles) :
     IF cycles[c].pc = "done"
     THEN /\ Cardinality(LinesOf(c)) = 1
          /\ \A i \in LinesOf(c) :
                log[i] = IF cycles[c].outcome = "ok"
                         THEN Line("stdout", "prediction", c)
                         ELSE Line("stderr", "error", c)
     ELSE LinesOf(c) = {}

\* a failed capture and a successful cycle have both been logged
C5_Witness ==
  /\ \E c \in Ended : cycles[c].outcome = "capture"
  /\ \E c \in Ended : cycles[c].outcome = "ok"
  /\ Len(log) = 1 + Cardinality(Ended)

\* C6: when the model load, the file read or the parse failed, exactly one
\* fatal line is logged, no timer is registered, no tick fires and no cycle
\* or capture exists.
C6_FatalStartup ==
  (loaded.result \in {"model", "readFile"}
     \/ (loaded.result = "read" /\ loaded.meta.json = "invalid"))
  => /\ log = <<Line("stderr", "fatal", 0)>>
     /\ ~timerRegistered
     /\ ticks = 0
     /\ cycles = <<>>
     /\ pc = "failed"

\* the metadata did not parse and the process has ended
C6_Witness ==
  /\ loaded.result = "read"
  /\ loaded.meta.json = "invalid"
  /\ exited

\* C7: a failed startup ends the process with a non-zero exit code; after a
\* successful startup the process never exits.
C7_ExitCodes ==
  /\ (exited /\ LoadFailed) => exitCode # 0
  /\ LoadSucceeded => ~exited

\* s[i] >= s[j] as numbers: false when either is NaN
Geq(a, b) == a.k = "num" /\ b.k = "num" /\ a.v >= b.v

\* t is the lowest 0-based index whose score is the maximum of s
FirstMaxIndex(s, t) ==
  /\ t \in 0..(Len(s) - 1)
  /\ \A j \in 1..Len(s) : Geq(s[t + 1], s[j])
  /\ \A j \in 1..t : ~Geq(s[j], s[t + 1])

\* C8: for every score vector of length at least 1 the top index is the
\* lowest index whose score equals the maximum of the vector.
C8_FirstMax ==
  (Predicted /\ Len(scores) >= 1) => FirstMaxIndex(scores, topIdx)

\* C9: the reported label is the LabelSet entry at the top index when there
\* is one, and class_<i> when there is none; the LabelSet is the metadata's
\* labels array, empty when the metadata has none.
C9_LabelOrClass ==
  Predicted =>
    LET ls == IF loaded.meta.hasLabels THEN loaded.meta.labels ELSE <<>>
    IN  label = IF topIdx >= 0 /\ topIdx < Len(ls)
                THEN ls[topIdx + 1]
                ELSE "class_" \o ToString(topIdx)

\* the score vector is longer than the LabelSet and the top index has no
\* label
C9_Witness ==
  /\ Predicted
  /\ Len(labels) = 1
  /\ topIdx = 1
  /\ label = "class_1"

\* C10: while a capture stays outstanding the flag is true, and every step
\* taken leaves it true, starts no cycle and logs nothing.
C10_StalledForever ==
  /\ [](InFlight # {} => running)
  /\ [][ (InFlight # {} /\ InFlight \subseteq InFlight')
         => (running' /\ cycles' = cycles /\ log' = log) ]_vars

\* a capture is outstanding and two later ticks have been dropped
C10_Witness ==
  \E c \in InFlight : running /\ ticks >= cycles[c].tick + 2


\* C11: whenever a later cycle exists, every earlier cycle has ended and
\* its line is in the log; the lines of cycles appear in the log in the
\* order in which the cycles started.
C11_StartOrder ==
  /\ \A c \in 1..Len(cycles) :
        c < Len(cycles) => (cycles[c].pc = "done" /\ LinesOf(c) # {})
  /\ \A i, j \in 1..Len(log) :
        (i < j /\ log[i].cycle > 0 /\ log[j].cycle > 0)
          => log[i].cycle < log[j].cycle

\* three cycles have run one after the other, a failed one between two
\* successful ones, and their three lines are in the log
C11_Witness ==
  /\ Len(cycles) = 3
  /\ Ended = {1, 2, 3}
  /\ cycles[1].outcome = "ok"
  /\ cycles[2].outcome = "capture"
  /\ cycles[3].outcome = "ok"
  /\ Len(log) = 4

\* C12: every cycle starts in a tick step and carries the number of that
\* tick, so the ticks of successive cycles strictly increase, whatever the
\* time a cycle takes.
C12_StartsOnTicks ==
  /\ [](\A c \in 1..Len(cycles) :
          /\ cycles[c].tick \in 1..ticks
          /\ c > 1 => cycles[c].tick > cycles[c - 1].tick)
  /\ [][(Len(cycles') > Len(cycles))
         => (/\ ticks' = ticks + 1
             /\ cycles'[Len(cycles')].tick = ticks') ]_vars

\* a cycle started on the tick right after its predecessor's, and the next
\* one, after a long cycle, two or more ticks later
C12_Witness ==
  /\ Len(cycles) = 3
  /\ cycles[2].tick = cycles[1].tick + 1
  /\ cycles[3].tick >= cycles[2].tick + 2

\* C13: loadModelAndLabels is called once in the whole run, and the timer
\* is registered, a tick fires or a cycle exists only after that load has
\* succeeded.
C13_LoadedOnce ==
  /\ loadCalls = 1
  /\ (timerRegistered \/ ticks > 0 \/ cycles # <<>>)
       => (LoadSucceeded /\ pc = "looping")

\* two cycles have used the model and it was loaded once
C13_Witness ==
  /\ loadCalls = 1
  /\ Cardinality({c \in Ended : cycles[c].inferences = 1}) >= 2

\* C14: every cycle has called captureFrame once; it has run inference at
\* most once, and only when its capture and decode succeeded; a failed cycle
\* is over, and the next cycle starts at a later tick.
C14_NoRetry ==
  \A c \in 1..Len(cycles) :
     /\ cycles[c].captures = 1
     /\ cycles[c].inferences \in {0, 1}
     /\ cycles[c].inferences = 1 <=> cycles[c].outcome \in {"inference", "ok"}
     /\ Failed(c) => cycles[c].pc = "done"
     /\ (Failed(c) /\ c < Len(cycles)) => cycles[c + 1].tick > cycles[c].tick

\* a capture failed, and the capture of the following cycle succeeded and
\* its frame went through inference
C14_Witness ==
  \E c \in 1..Len(cycles) :
     /\ c + 1 <= Len(cycles)
     /\ cycles[c].outcome = "capture"
     /\ cycles[c + 1].outcome = "ok"
     /\ cycles[c + 1].inferences = 1

\* C15: between the steps of the program, when no predict call is
\* executing, no tensor created by predict is live, whichever way the
\* predict calls so far have ended.
C15_TensorsReleased == liveTensors = 0

\* predict has thrown in decodeImage, thrown in model.predict and returned
C15_Witness ==
  /\ liveTensors = 0
  /\ \E c \in Ended : cycles[c].outcome = "decode"
  /\ \E c \in Ended : cycles[c].outcome = "inference"
  /\ \E c \in Ended : cycles[c].outcome = "ok"

\* C18: until the first tick has fired there is no cycle, no capture in
\* flight, the flag is false and no prediction or error line is logged; the
\* first cycle is the one the first tick starts.
C18_NothingBeforeFirstTick ==
  /\ ticks = 0 =>
       /\ cycles = <<>>
       /\ ~running
       /\ \A i \in 1..Len(log) : log[i].kind \notin {"prediction", "error"}
  /\ cycles # <<>> => cycles[1].tick = 1

\* the load succeeded and the timer is registered, and no tick has fired
C18_Witness ==
  /\ pc = "looping"
  /\ timerRegistered
  /\ ticks = 0
  /\ log = <<Line("stdout", "loaded", 0)>>

\* C16: in every state the flag is true exactly when a cycle has started
\* and not reached its cleanup, and the step that starts a cycle is the step
\* that finds the flag false and sets it.
C16_FlagTracksCycle ==
  /\ [](running <=> (Active # {}))
  /\ [][(Len(cycles') > Len(cycles)) => (~running /\ running')]_vars

\* the flag has been set, released and set again
C16_Witness ==
  /\ running
  /\ Len(cycles) >= 2
  /\ Active = {Len(cycles)}

\* C17: when the timer keeps firing and every capture is answered, a
\* started cycle always ends, and once the loop runs the flag is false again
\* and again and a cycle starts again and again.
C17_Progress ==
  /\ (InFlight # {}) ~> (InFlight = {})
  /\ (pc = "looping") ~> ~running
  /\ [](pc # "looping") \/ []<><<~running /\ running'>>_vars

\* a cycle that started after the first ones were forgotten has ended
\* and released the flag
C17_Witness ==
  /\ pc = "looping"
  /\ ~running
  /\ Len(log) = 1
  /\ log[1].cycle = 1
  /\ cycles[1].pc = "done"

====
